---- MODULE Spec2Model ----
(***************************************************************************)
(* Three programs of the repository as state machines.                     *)
(*                                                                         *)
(* observer_pattern.py: a request is a task frame; the synchronous prefix  *)
(* of a handler (the mutation of the entity map, the construction of the   *)
(* event) is one step, and every `await observer.update(...)` of           *)
(* Subject.notify is one further step, so that the order of deliveries, an *)
(* exception leaving the loop, and the value handed back to the caller are *)
(* all visible in the state.                                               *)
(*                                                                         *)
(* thread_safe_singleton.py: threads inside Singleton.__new__ and          *)
(* Singleton.__init__, one step per read or write of a class attribute.    *)
(*                                                                         *)
(* factory_pattern.py: DataProcessorFactory, the processors and the        *)
(* endpoints that create them.                                             *)
(***************************************************************************)
EXTENDS Integers, Sequences, FiniteSets, TLC

VARIABLES observers, users, next_id, frame, assigned, deleted,
          kept, churn,
          instance, is_initialized, lock, val, thread, writes,
          factory

\* observer_pattern.py: the subject, the service and the tasks' frames
service_vars == <<observers, users, next_id, frame, assigned, deleted>>
\* what a retaining subscriber holds, and the handles attached or detached
\* while each task's notify was in flight
watch_vars == <<kept, churn>>
\* thread_safe_singleton.py: the class attributes, the instances' val and
\* the constructing threads
singleton_vars == <<instance, is_initialized, lock, val, thread, writes>>
\* factory_pattern.py: the last call of the factory and the objects made
factory_vars == <<factory>>

vars == <<service_vars, watch_vars, singleton_vars, factory_vars>>

-----------------------------------------------------------------------------
(* Bounds of the model *)

\* create_user is offered while next_id <= MaxId
MaxId == 2
\* Subject.attach is offered while the subscriber list is shorter than this
MaxObservers == 2

-----------------------------------------------------------------------------
(* Values *)

\* name: str = None, email: str = None (UserUpdate): the unset marker
None == "None"

\* the observer objects the module constructs, and the tags the endpoints
\* resolve to them
observer_map ==
    [email |-> "email_observer", logging |-> "logging_observer",
     slack |-> "slack_observer", analytics |-> "analytics_observer"]

\* readings of datetime.now()
Times == {1}

\* datetime.isoformat(): the text of a reading of the clock
isoformat(t) == <<"iso8601", t>>

\* user ids a request may name: the ids create_user can have given, so
\* that an id is absent before its creation and after its deletion
UserIds == 1..MaxId

-----------------------------------------------------------------------------
(* Pure helpers *)

\* occurrences of x in the sequence s
Count(s, x) == Cardinality({k \in 1..Len(s) : s[k] = x})

\* a membership test that finds nothing
NeverContains(s, x) == FALSE

\* x in s (Python: x in list)
Contains(s, x) == \E k \in 1..Len(s) : s[k] = x

\* list.remove(x) for a present x: drops the first occurrence
RemoveFirst(s, x) ==
    LET k == CHOOSE j \in 1..Len(s) : s[j] = x /\ \A h \in 1..(j-1) : s[h] # x
    IN  [j \in 1..(Len(s) - 1) |-> IF j < k THEN s[j] ELSE s[j + 1]]

\* the dictionary replaced by d instead of merged with it
DictReplace(u, d) == d

\* dict.update(d): keys of d overwrite or are added, the others stay
DictUpdate(u, d) ==
    [f \in (DOMAIN u) \cup (DOMAIN d) |-> IF f \in DOMAIN d THEN d[f] ELSE u[f]]

\* {k: v for k, v in user.dict().items() if v is not None}
UpdateData(name, email) ==
    LET body == [name |-> name, email |-> email]
    IN  [f \in {g \in DOMAIN body : body[g] # None} |-> body[f]]

\* an id computed from the size of the map: taken again after a deletion
SizeBasedId(nid, us) == Cardinality(DOMAIN us) + 1

\* the id create_user gives the new user
NewUserId(nid, us) == nid

\* the dictionary create_user stores
NewUser(user_id, name, email, now) ==
    [id |-> user_id, name |-> name, email |-> email, created_at |-> isoformat(now)]

\* self.users with key k bound to u
Put(us, k, u) == [j \in (DOMAIN us) \cup {k} |-> IF j = k THEN u ELSE us[j]]

\* a read of the entry that leaves it in the map
PopKeeps(us, k) == us

\* self.users after pop(k)
Pop(us, k) == [j \in (DOMAIN us) \ {k} |-> us[j]]

\* a result that carries the message alone
DeleteResultMessageOnly(deleted_user) ==
    [message |-> "User deleted successfully"]

\* the value delete_user hands back
DeleteResult(deleted_user) ==
    [message |-> "User deleted successfully", user |-> deleted_user]

-----------------------------------------------------------------------------
(* Task frames *)

Tasks == {"t1", "t2"}
\* the tasks that issue requests when requests are served one at a time
SeqTasks == {"t1"}

NoEvent == [event_type |-> "none"]
NoResult == [status |-> "none"]
NoCall == [op |-> "none", status |-> "none"]

IdleFrame ==
    [pc |-> "idle", op |-> "none", arg |-> [x |-> 0], i |-> 0, event |-> NoEvent,
     attempts |-> <<>>, ret |-> [kind |-> "none"], result |-> NoResult,
     pre |-> [users |-> <<>>, next_id |-> 0, observers |-> <<>>],
     before |-> NoCall]

Ok(v) == [status |-> "ok", value |-> v]
Raise(e) == [status |-> "raise", value |-> e]

\* what the next call of the same task remembers of the call before it
Summary(f) ==
    IF f.op \in {"attach", "detach"} /\ f.result.status = "ok"
    THEN [op |-> f.op, status |-> "ok", observer |-> f.arg.observer,
          n |-> Count(f.pre.observers, f.arg.observer)]
    ELSE NoCall

\* a task may start a call when it is not inside one
CanStart(t) == frame[t].pc \in {"idle", "done"}

\* the frame of a call that starts now
Begin(t, op, arg) ==
    [IdleFrame EXCEPT !.op = op, !.arg = arg,
        !.pre = [users |-> users, next_id |-> next_id, observers |-> observers],
        !.before = Summary(frame[t])]

\* a call that is over at once
Finished(t, op, arg, result) ==
    [Begin(t, op, arg) EXCEPT !.pc = "done", !.result = result]

\* a call that enters Subject.notify without an event
NotifyingUnpublished(t, op, arg, event, ret) ==
    [Begin(t, op, arg) EXCEPT !.pc = "notify", !.ret = ret]

\* a call that enters Subject.notify with the event and will hand back ret
Notifying(t, op, arg, event, ret) ==
    [Begin(t, op, arg) EXCEPT !.pc = "notify", !.event = event, !.ret = ret]

-----------------------------------------------------------------------------
(* Subject *)

\* self._observers.append(observer)
ListAppend(s, x) == Append(s, x)

\* Subject.attach
attach(t, observer) ==
    /\ CanStart(t)
    /\ Len(observers) < MaxObservers
    /\ observers' = ListAppend(observers, observer)
    /\ frame' = [frame EXCEPT ![t] =
                    Finished(t, "attach", [observer |-> observer], Ok(None))]
    /\ UNCHANGED <<users, next_id, assigned, deleted>>

\* list.remove(x): the list without the first x, or ValueError
ListRemove(s, x) ==
    IF Contains(s, x)
    THEN [list |-> RemoveFirst(s, x), result |-> Ok(None)]
    ELSE [list |-> s, result |-> Raise("ValueError")]

\* Subject.detach
detach(t, observer) ==
    /\ CanStart(t)
    /\ LET r == ListRemove(observers, observer)
       IN  /\ observers' = r.list
           /\ frame' = [frame EXCEPT ![t] =
                           Finished(t, "detach", [observer |-> observer], r.result)]
    /\ UNCHANGED <<users, next_id, assigned, deleted>>

\* one iteration of `for observer in self._observers: await observer.update(...)`:
\* the observer's update either completes or raises, and an exception leaves
\* notify and the handler that awaits it
notify_deliver(t) ==
    /\ frame[t].pc = "notify"
    /\ frame[t].i < Len(observers)
    /\ LET o == observers[frame[t].i + 1]
       IN  \E outcome \in {"ok", "raise"} :
             frame' = [frame EXCEPT ![t] =
                 IF outcome = "ok"
                 THEN [@ EXCEPT !.i = @ + 1,
                                !.attempts = Append(@, <<o, "ok">>)]
                 ELSE [@ EXCEPT !.pc = "done",
                                !.attempts = Append(@, <<o, "raise">>),
                                !.result = Raise("ObserverError")]]
    /\ UNCHANGED <<observers, users, next_id, assigned, deleted>>

\* the value of the handler's return statement, read when it is reached:
\* update_user returns self.users[user_id], the others a local
ReturnValue(ret, us) ==
    IF ret.kind = "lookup"
    THEN IF ret.user_id \in DOMAIN us THEN Ok(us[ret.user_id]) ELSE Raise("KeyError")
    ELSE Ok(ret.value)

\* the loop of notify is exhausted: the handler returns its value
notify_return(t) ==
    /\ frame[t].pc = "notify"
    /\ frame[t].i >= Len(observers)
    /\ frame' = [frame EXCEPT ![t] =
                    [@ EXCEPT !.pc = "done",
                               !.result = ReturnValue(frame[t].ret, users)]]
    /\ UNCHANGED <<observers, users, next_id, assigned, deleted>>

-----------------------------------------------------------------------------
(* UserService *)

\* UserService.create_user up to its await of notify
create_user(t, name, email, now, now2) ==
    /\ CanStart(t)
    /\ next_id <= MaxId
    /\ LET user_id == NewUserId(next_id, users)
           user == NewUser(user_id, name, email, now)
       IN  /\ next_id' = next_id + 1
           /\ users' = Put(users, user_id, user)
           /\ assigned' = Append(assigned, user_id)
           /\ frame' = [frame EXCEPT ![t] =
                 Notifying(t, "create_user", [name |-> name, email |-> email],
                     [event_type |-> "USER_CREATED", user_id |-> user_id,
                      user_data |-> user, timestamp |-> isoformat(now2)],
                     [kind |-> "local", value |-> user])]
    /\ UNCHANGED <<observers, deleted>>

\* the body of UserService.update_user up to its await of notify, or its
\* 404; request is what the caller sent, kept in the frame
UpdateCall(t, user_id, user_data, request, now) ==
    /\ CanStart(t)
    /\ LET arg == [user_id |-> user_id, user_data |-> user_data, request |-> request]
       IN  IF user_id \notin DOMAIN users
           THEN /\ frame' = [frame EXCEPT ![t] =
                      Finished(t, "update_user", arg, Raise("HTTPException404"))]
                /\ UNCHANGED users
           ELSE LET old_data == users[user_id]
                    new_data == DictUpdate(users[user_id], user_data)
                IN  /\ users' = Put(users, user_id, new_data)
                    /\ frame' = [frame EXCEPT ![t] =
                          Notifying(t, "update_user", arg,
                              [event_type |-> "USER_UPDATED", user_id |-> user_id,
                               old_data |-> old_data, new_data |-> new_data,
                               timestamp |-> isoformat(now)],
                              [kind |-> "lookup", user_id |-> user_id])]
    /\ UNCHANGED <<observers, next_id, assigned, deleted>>

\* UserService.update_user called with a dictionary
UserService_update_user(t, user_id, user_data, now) ==
    UpdateCall(t, user_id, user_data, user_data, now)

\* PUT /users/{user_id}: the fields of the body that are set, merged by the service
update_user(t, user_id, name, email, now) ==
    UpdateCall(t, user_id, UpdateData(name, email),
               [name |-> name, email |-> email], now)

\* UserService.delete_user up to its await of notify, or its 404
delete_user(t, user_id, now) ==
    /\ CanStart(t)
    /\ LET arg == [user_id |-> user_id]
       IN  IF user_id \notin DOMAIN users
           THEN /\ frame' = [frame EXCEPT ![t] =
                      Finished(t, "delete_user", arg, Raise("HTTPException404"))]
                /\ UNCHANGED <<users, deleted>>
           ELSE LET deleted_user == users[user_id]
                IN  /\ users' = Pop(users, user_id)
                    /\ deleted' = deleted \cup {user_id}
                    /\ frame' = [frame EXCEPT ![t] =
                          Notifying(t, "delete_user", arg,
                              [event_type |-> "USER_DELETED", user_id |-> user_id,
                               deleted_user |-> deleted_user,
                               timestamp |-> isoformat(now)],
                              [kind |-> "local", value |-> DeleteResult(deleted_user)])]
    /\ UNCHANGED <<observers, next_id, assigned>>

\* self.users.get(user_id): None for an absent id
GetOrNone(us, user_id) ==
    IF user_id \in DOMAIN us THEN Ok(us[user_id]) ELSE Ok(None)

\* the outcome of get_user: the stored user, or the 404 for an absent id
GetUserResult(us, user_id) ==
    IF user_id \notin DOMAIN us THEN Raise("HTTPException404") ELSE Ok(us[user_id])

\* UserService.get_user
get_user(t, user_id) ==
    /\ CanStart(t)
    /\ frame' = [frame EXCEPT ![t] =
          Finished(t, "get_user", [user_id |-> user_id], GetUserResult(users, user_id))]
    /\ UNCHANGED <<observers, users, next_id, assigned, deleted>>

-----------------------------------------------------------------------------
(* Observer endpoints *)

\* POST /observers/detach/{observer_type}
detach_observer(t, observer_type) ==
    /\ CanStart(t)
    /\ IF observer_type \in DOMAIN observer_map
       THEN LET observer == observer_map[observer_type]
                r == ListRemove(observers, observer)
            IN  /\ observers' = r.list
                /\ frame' = [frame EXCEPT ![t] =
                      Finished(t, "detach_observer", [observer |-> observer],
                          IF r.result.status = "ok"
                          THEN Ok([message |-> "observer detached"])
                          ELSE r.result)]
       ELSE /\ frame' = [frame EXCEPT ![t] =
                  Finished(t, "detach_observer", [observer |-> None],
                      Raise("HTTPException400"))]
            /\ UNCHANGED observers
    /\ UNCHANGED <<users, next_id, assigned, deleted>>

\* POST /observers/attach/{observer_type}
attach_observer(t, observer_type) ==
    /\ CanStart(t)
    /\ IF observer_type \in DOMAIN observer_map
       THEN LET observer == observer_map[observer_type]
            IN  IF ~Contains(observers, observer)
                THEN /\ observers' = ListAppend(observers, observer)
                     /\ frame' = [frame EXCEPT ![t] =
                           Finished(t, "attach_observer", [observer |-> observer],
                               Ok([message |-> "observer attached"]))]
                ELSE /\ frame' = [frame EXCEPT ![t] =
                           Finished(t, "attach_observer", [observer |-> observer],
                               Ok([message |-> "observer already attached"]))]
                     /\ UNCHANGED observers
       ELSE /\ frame' = [frame EXCEPT ![t] =
                  Finished(t, "attach_observer", [observer |-> None],
                      Raise("HTTPException400"))]
            /\ UNCHANGED observers
    /\ UNCHANGED <<users, next_id, assigned, deleted>>

-----------------------------------------------------------------------------
(* thread_safe_singleton.py: Singleton, constructed by concurrent threads.  *)
(* Every read and write of a class attribute is one step of its thread, so  *)
(* that the threads interleave between any two of them.                     *)

\* how many threads construct Singleton(val), one call each
NumThreads == 3

Threads == 1..NumThreads

\* _instance = None
NoInstance == 0
\* _lock = Lock(): not held
Unlocked == 0
\* an instance whose val was never assigned
Unset == <<"unset", 0>>

\* the argument of the thread's call, as in Singleton("db_connect_1")
ValArg(th) == <<"db_connect", th>>

NotCalled == [pc |-> "idle", self |-> NoInstance, result |-> NoInstance]

\* super().__new__(cls): an object distinct from every object made before
NewObject(objs) == Cardinality(objs) + 1

\* a second check in __new__ that never finds the instance
NewNoSecondCheck(inst) == TRUE

\* `if cls._instance is None` under the lock
NewSecondCheck(inst) == inst = NoInstance

\* a second check in __init__ that never finds the flag
InitNoSecondCheck(flag) == TRUE

\* `if not self._is_initialized` under the lock
InitSecondCheck(flag) == ~flag

Goto(th, pc) == [thread EXCEPT ![th].pc = pc]

\* Singleton(val): the call enters __new__
call(th) ==
    /\ thread[th].pc = "idle"
    /\ thread' = Goto(th, "new_9")
    /\ UNCHANGED <<instance, is_initialized, lock, val, writes>>

\* line 9: `if cls._instance is None`, outside the lock
new_check(th) ==
    /\ thread[th].pc = "new_9"
    /\ thread' = Goto(th, IF instance = NoInstance THEN "new_10" ELSE "new_13")
    /\ UNCHANGED <<instance, is_initialized, lock, val, writes>>

\* line 10: `with cls._lock`, entered when no thread holds the lock
new_acquire(th) ==
    /\ thread[th].pc = "new_10"
    /\ lock = Unlocked
    /\ lock' = th
    /\ thread' = Goto(th, "new_11")
    /\ UNCHANGED <<instance, is_initialized, val, writes>>

\* line 11: the check again, under the lock
new_recheck(th) ==
    /\ thread[th].pc = "new_11"
    /\ thread' = Goto(th, IF NewSecondCheck(instance) THEN "new_12" ELSE "new_exit")
    /\ UNCHANGED <<instance, is_initialized, lock, val, writes>>

\* line 12: cls._instance = super().__new__(cls)
new_create(th) ==
    /\ thread[th].pc = "new_12"
    /\ LET obj == NewObject(DOMAIN val)
       IN  /\ instance' = obj
           /\ val' = [o \in (DOMAIN val) \cup {obj} |->
                         IF o = obj THEN Unset ELSE val[o]]
    /\ thread' = Goto(th, "new_exit")
    /\ UNCHANGED <<is_initialized, lock, writes>>

\* the end of the with block of __new__
new_release(th) ==
    /\ thread[th].pc = "new_exit"
    /\ lock' = Unlocked
    /\ thread' = Goto(th, "new_13")
    /\ UNCHANGED <<instance, is_initialized, val, writes>>

\* line 13: return cls._instance; __init__ runs on the object returned
new_return(th) ==
    /\ thread[th].pc = "new_13"
    /\ thread' = [thread EXCEPT ![th].pc = "init_16", ![th].self = instance]
    /\ UNCHANGED <<instance, is_initialized, lock, val, writes>>

\* line 16: `if not self._is_initialized`, outside the lock; when the flag is
\* set the constructor call returns the object
init_check(th) ==
    /\ thread[th].pc = "init_16"
    /\ thread' = IF ~is_initialized
                 THEN Goto(th, "init_17")
                 ELSE [thread EXCEPT ![th].pc = "returned",
                                     ![th].result = thread[th].self]
    /\ UNCHANGED <<instance, is_initialized, lock, val, writes>>

\* line 17: `with self._lock`
init_acquire(th) ==
    /\ thread[th].pc = "init_17"
    /\ lock = Unlocked
    /\ lock' = th
    /\ thread' = Goto(th, "init_18")
    /\ UNCHANGED <<instance, is_initialized, val, writes>>

\* line 18: the check again, under the lock
init_recheck(th) ==
    /\ thread[th].pc = "init_18"
    /\ thread' = Goto(th, IF InitSecondCheck(is_initialized)
                          THEN "init_19" ELSE "init_exit")
    /\ UNCHANGED <<instance, is_initialized, lock, val, writes>>

\* line 19: self.val = val
init_set_val(th) ==
    /\ thread[th].pc = "init_19"
    /\ val' = [val EXCEPT ![thread[th].self] = ValArg(th)]
    /\ writes' = Append(writes, <<th, thread[th].self, ValArg(th)>>)
    /\ thread' = Goto(th, "init_20")
    /\ UNCHANGED <<instance, is_initialized, lock>>

\* line 20: self.__class__._is_initialized = True
init_set_flag(th) ==
    /\ thread[th].pc = "init_20"
    /\ is_initialized' = TRUE
    /\ thread' = Goto(th, "init_exit")
    /\ UNCHANGED <<instance, lock, val, writes>>

\* the end of the with block of __init__: the constructor call returns
init_release(th) ==
    /\ thread[th].pc = "init_exit"
    /\ lock' = Unlocked
    /\ thread' = [thread EXCEPT ![th].pc = "returned",
                                ![th].result = thread[th].self]
    /\ UNCHANGED <<instance, is_initialized, val, writes>>

-----------------------------------------------------------------------------
(* factory_pattern.py: DataProcessorFactory and the endpoints that use it *)

\* create_processor is offered while fewer objects than this were made
MaxInstances == 5

\* class ProcessorType(str, Enum)
ProcessorType == {"json", "xml", "csv"}

\* what a caller of the classmethod may pass besides a member of the enum
OtherTypes == {"yaml"}

\* request bodies: the three texts of GET /examples, the empty text and a
\* JSON array, each with what json.loads and ET.fromstring make of it and
\* the number of fields of each row csv.reader finds in it
Texts ==
    { [text |-> "json_example",
       json |-> Ok([keys |-> <<"name", "age", "city">>, length |-> 47]),
       xml |-> Raise("ParseError"),
       rows |-> <<3>>],
      [text |-> "xml_example",
       json |-> Raise("JSONDecodeError"),
       xml |-> Ok([root_tag |-> "person", children_count |-> 3]),
       rows |-> <<1>>],
      [text |-> "csv_example",
       json |-> Raise("JSONDecodeError"),
       xml |-> Raise("ParseError"),
       rows |-> <<3, 3, 3>>],
      [text |-> "",
       json |-> Raise("JSONDecodeError"),
       xml |-> Raise("ParseError"),
       rows |-> <<>>],
      [text |-> "[1, 2]",
       json |-> Ok([keys |-> <<>>, length |-> 6]),
       xml |-> Raise("ParseError"),
       rows |-> <<2>>] }

\* JSONProcessor.process
JSONProcessor_process(data) ==
    IF data.json.status = "raise"
    THEN [error |-> "Invalid JSON format", type |-> "json"]
    ELSE [type |-> "json", keys |-> data.json.value.keys,
          length |-> data.json.value.length]

\* XMLProcessor.process
XMLProcessor_process(data) ==
    IF data.xml.status = "raise"
    THEN [error |-> "Invalid XML format", type |-> "xml"]
    ELSE [type |-> "xml", root_tag |-> data.xml.value.root_tag,
          children_count |-> data.xml.value.children_count]

\* CSVProcessor.process: rows holds the number of columns of each row
CSVProcessor_process(data) ==
    [type |-> "csv", row_count |-> Len(data.rows),
     column_count |-> IF Len(data.rows) > 0 THEN data.rows[1] ELSE 0]

\* processor.process(data), by the class of the processor
process(class, data) ==
    CASE class = "JSONProcessor" -> JSONProcessor_process(data)
      [] class = "XMLProcessor" -> XMLProcessor_process(data)
      [] class = "CSVProcessor" -> CSVProcessor_process(data)

\* processor.get_metadata(), by the class of the processor
get_metadata(class) == [processor |-> class, version |-> "1.0"]

\* a registry in which two types share one class
processors_shared ==
    [json |-> "JSONProcessor", xml |-> "JSONProcessor", csv |-> "CSVProcessor"]

\* DataProcessorFactory._processors
processors ==
    [json |-> "JSONProcessor", xml |-> "XMLProcessor", csv |-> "CSVProcessor"]

\* DataProcessorFactory.create_processor: the class registered for the type,
\* instantiated, or ValueError; made is the number of objects made so far
DataProcessorFactory_create_processor(processor_type, made) ==
    IF processor_type \in DOMAIN processors
    THEN Ok([class |-> processors[processor_type], obj |-> made + 1])
    ELSE Raise("ValueError")

\* DataProcessorFactory.get_available_processors: list(cls._processors.keys()),
\* in the order of the dict literal
DataProcessorFactory_get_available_processors ==
    LET order == <<"json", "xml", "csv">>
    IN  SelectSeq(order, LAMBDA ty : ty \in DOMAIN processors)

NoFactoryCall ==
    [op |-> "none", arg |-> [x |-> 0], result |-> NoResult, made |-> 0, pre_made |-> 0]

\* the factory's state after a call: the objects a successful create made
FactoryCall(op, arg, created, result) ==
    [op |-> op, arg |-> arg, result |-> result, pre_made |-> factory.made,
     made |-> IF created.status = "ok" THEN created.value.obj ELSE factory.made]

\* a direct call of DataProcessorFactory.create_processor
create_processor(processor_type) ==
    /\ factory.made < MaxInstances
    /\ LET created == DataProcessorFactory_create_processor(processor_type, factory.made)
       IN  factory' = FactoryCall("create_processor",
                          [processor_type |-> processor_type], created, created)

\* GET /processors
get_available_processors ==
    /\ factory' = FactoryCall("get_available_processors", [x |-> 0], NoResult,
           Ok([available_processors |-> DataProcessorFactory_get_available_processors,
               count |-> Len(DataProcessorFactory_get_available_processors)]))

\* POST /process: a ValueError of the factory becomes the 400
process_data(processor_type, data) ==
    /\ factory.made < MaxInstances
    /\ LET created == DataProcessorFactory_create_processor(processor_type, factory.made)
       IN  factory' = FactoryCall("process_data",
               [processor_type |-> processor_type, data |-> data.text], created,
               IF created.status = "ok"
               THEN Ok([original_data |-> data.text,
                        processed_data |-> process(created.value.class, data),
                        processor_used |-> processor_type,
                        metadata |-> get_metadata(created.value.class)])
               ELSE Raise("HTTPException400"))

\* GET /processor/{processor_type}/metadata
get_processor_metadata(processor_type) ==
    /\ factory.made < MaxInstances
    /\ LET created == DataProcessorFactory_create_processor(processor_type, factory.made)
       IN  factory' = FactoryCall("get_processor_metadata",
               [processor_type |-> processor_type], created,
               IF created.status = "ok"
               THEN Ok([processor_type |-> processor_type,
                        metadata |-> get_metadata(created.value.class)])
               ELSE Raise("HTTPException400"))

-----------------------------------------------------------------------------
(* The state after the modules are loaded *)

\* no payload retained yet
NoKept == [event |-> NoEvent, view |-> NoEvent]

\* UserService(): no subscriber, no user, the counter at 1
ServiceInit ==
    /\ observers = <<>>
    /\ users = <<>>
    /\ next_id = 1
    /\ frame = [t \in Tasks |-> IdleFrame]
    /\ assigned = <<>>
    /\ deleted = {}
    /\ kept = NoKept
    /\ churn = [t \in Tasks |-> {}]

\* the class attributes of Singleton before any call
SingletonInit ==
    /\ instance = NoInstance
    /\ is_initialized = FALSE
    /\ lock = Unlocked
    /\ val = <<>>
    /\ thread = [th \in Threads |-> NotCalled]
    /\ writes = <<>>

FactoryInit == factory = NoFactoryCall

Init == ServiceInit /\ SingletonInit /\ FactoryInit

-----------------------------------------------------------------------------
(* Requests served one at a time: a request starts when no other is under way *)

NoneRunning == \A u \in Tasks : frame[u].pc \in {"idle", "done"}

\* a step of the service leaves the other modules, and the ghosts, alone
ServiceOnly == UNCHANGED <<watch_vars, singleton_vars, factory_vars>>

\* the requests of a run: H the observers attached and detached, OT the
\* path parameters of the observer endpoints, N and E the bodies of POST
\* /users, SD the dictionaries a direct caller hands to
\* UserService.update_user (it takes any Dict[str, Any]), UN and UE the
\* fields of the bodies of PUT /users/{id} (a value, or None for unset)
Requests(t, H, OT, N, E, SD, UN, UE) ==
    \/ ServiceOnly /\ NoneRunning /\ \E o \in H : attach(t, o)
    \/ ServiceOnly /\ NoneRunning /\ \E o \in H : detach(t, o)
    \/ ServiceOnly /\ NoneRunning /\ \E ty \in OT : attach_observer(t, ty)
    \/ ServiceOnly /\ NoneRunning /\ \E ty \in OT : detach_observer(t, ty)
    \/ ServiceOnly /\ NoneRunning /\ \E n \in N, e \in E, now \in Times, now2 \in Times :
            now <= now2 /\ create_user(t, n, e, now, now2)
    \/ ServiceOnly /\ NoneRunning /\ \E id \in UserIds, d \in SD, now \in Times :
            UserService_update_user(t, id, d, now)
    \/ ServiceOnly /\ NoneRunning /\ \E id \in UserIds, n \in UN, e \in UE, now \in Times :
            update_user(t, id, n, e, now)
    \/ ServiceOnly /\ NoneRunning /\ \E id \in UserIds, now \in Times : delete_user(t, id, now)
    \/ ServiceOnly /\ NoneRunning /\ \E id \in UserIds : get_user(t, id)
    \/ ServiceOnly /\ notify_deliver(t)
    \/ ServiceOnly /\ notify_return(t)

\* Two observers attached and detached in any order, one field updated
Next ==
    \E t \in SeqTasks :
        Requests(t, {"email_observer", "logging_observer"}, {"email", "carrier_pigeon"},
                 {"Ann"}, {"ann@x.io"}, {[name |-> "X"]}, {"X"}, {None})

Spec == Init /\ [][Next]_vars

\* One observer, and updates of every field of a user: name through the
\* endpoint, email, id and created_at by a direct caller of the service
NextData ==
    \E t \in SeqTasks :
        Requests(t, {"email_observer"}, {"email"},
                 {"Ann"}, {"ann@x.io"},
                 {[email |-> "a@x.io", id |-> 99, created_at |-> isoformat(0)]},
                 {None, "X"}, {None})

SpecData == Init /\ [][NextData]_vars
-----------------------------------------------------------------------------
(* A subscriber that keeps a payload it was handed.  A payload is a dict of *)
(* references: where it holds the dict stored in self.users, the subscriber *)
(* sees that dict as it is now, not as it was when the event was built.     *)

\* the fields of a payload that are the stored dict itself: `user` of
\* create_user, self.users[user_id] of update_user; old_data is a copy and
\* deleted_user was taken out of the map
LiveFields(event) ==
    CASE event.event_type = "USER_CREATED" -> {"user_data"}
      [] event.event_type = "USER_UPDATED" -> {"new_data"}
      [] OTHER -> {}

\* what the holder of the payload reads in it while the map is us
See(event, us) ==
    [g \in DOMAIN event |->
        IF g \in LiveFields(event) /\ event.user_id \in DOMAIN us
        THEN us[event.user_id]
        ELSE event[g]]

\* the kept payload after a step that leaves the map as us
Track(k, us) == [k EXCEPT !.view = See(k.view, us)]

\* a step of the service, seen by the holder of the kept payload
Tracked ==
    /\ kept' = Track(kept, users')
    /\ UNCHANGED <<churn, singleton_vars, factory_vars>>

\* observer.update(event_type, data) of an observer that keeps data
update_keeping(t) ==
    /\ kept = NoKept
    /\ notify_deliver(t)
    /\ frame'[t].attempts[Len(frame'[t].attempts)][2] = "ok"
    /\ kept' = [event |-> See(frame[t].event, users),
                view |-> See(frame[t].event, users)]
    /\ UNCHANGED <<churn, singleton_vars, factory_vars>>

\* one observer attached through the endpoint; users created, renamed and
\* deleted; the observer keeps one of the payloads it is handed
NextAlias ==
    \E t \in SeqTasks :
        \/ NoneRunning /\ attach_observer(t, "email") /\ Tracked
        \/ NoneRunning /\ \E now \in Times :
                create_user(t, "Ann", "ann@x.io", now, now) /\ Tracked
        \/ NoneRunning /\ \E id \in UserIds, now \in Times :
                update_user(t, id, "X", None, now) /\ Tracked
        \/ NoneRunning /\ \E id \in UserIds, now \in Times :
                delete_user(t, id, now) /\ Tracked
        \/ update_keeping(t)
        \/ notify_deliver(t) /\ Tracked
        \/ notify_return(t) /\ Tracked

SpecAlias == Init /\ [][NextAlias]_vars

-----------------------------------------------------------------------------
(* Requests in progress at the same time.  The handlers are coroutines on   *)
(* one event loop and hold no lock: a handler runs alone up to the first    *)
(* `await observer.update(...)` of notify, which may suspend it, and from   *)
(* then on any other handler may run before it is resumed.  A frame with    *)
(* pc = "notify" and i = k >= 1 is a handler inside, or resumed from, the   *)
(* update of the k-th observer that its loop took from the list.            *)

\* the handler of task u is not in the middle of a stretch that runs alone
Suspendable(u) ==
    \/ frame[u].pc \in {"idle", "done"}
    \/ frame[u].pc = "notify" /\ frame[u].i >= 1

\* the event loop may run task t
MayRun(t) == \A u \in Tasks \ {t} : Suspendable(u)

\* the observer objects of the module
Handles == {observer_map[ty] : ty \in DOMAIN observer_map}

\* a step of the service, with the handles it attached or detached noted
\* against every call whose notify is in flight
Churned ==
    /\ churn' = [u \in Tasks |->
                    IF frame[u].pc = "notify"
                    THEN churn[u] \cup
                         {h \in Handles : Count(observers, h) # Count(observers', h)}
                    ELSE IF frame'[u] # frame[u] THEN {} ELSE churn[u]]
    /\ UNCHANGED <<kept, singleton_vars, factory_vars>>

\* the user the concurrent requests are about: the first one created
FirstUser == {1}

\* the mutating endpoints and the observer endpoints, called by two clients:
\* one user is created, renamed and deleted, two observers are attached and
\* detached, and the updates of the observers complete without raising
NextConc ==
    \E t \in Tasks :
        \/ MayRun(t) /\ \E ty \in {"email", "logging"} : attach_observer(t, ty) /\ Churned
        \/ MayRun(t) /\ \E ty \in {"email", "logging"} : detach_observer(t, ty) /\ Churned
        \/ MayRun(t) /\ next_id \in FirstUser /\ \E now \in Times :
                create_user(t, "Ann", "ann@x.io", now, now) /\ Churned
        \/ MayRun(t) /\ \E id \in FirstUser, now \in Times :
                update_user(t, id, "X", None, now) /\ Churned
        \/ MayRun(t) /\ \E id \in FirstUser, now \in Times :
                delete_user(t, id, now) /\ Churned
        \/ MayRun(t) /\ notify_deliver(t) /\ frame'[t].pc = "notify" /\ Churned
        \/ MayRun(t) /\ notify_return(t) /\ Churned

SpecConc == Init /\ [][NextConc]_vars

-----------------------------------------------------------------------------
(* The application as the module leaves it: the four observers attached    *)
(* once each, and the observer endpoints called one after another          *)

\* the subscriber list after user_service.attach(email_observer), ...,
\* user_service.attach(analytics_observer)
AttachedAtStart ==
    <<observer_map.email, observer_map.logging,
      observer_map.slack, observer_map.analytics>>

InitApp ==
    /\ observers = AttachedAtStart
    /\ users = <<>>
    /\ next_id = 1
    /\ frame = [t \in Tasks |-> IdleFrame]
    /\ assigned = <<>>
    /\ deleted = {}
    /\ kept = NoKept
    /\ churn = [t \in Tasks |-> {}]
    /\ SingletonInit
    /\ FactoryInit

\* path parameters of the observer endpoints: the four tags and an unknown one
ObserverTypes == (DOMAIN observer_map) \cup {"carrier_pigeon"}

NextApi ==
    \E t \in SeqTasks :
        \/ ServiceOnly /\ \E ty \in ObserverTypes : attach_observer(t, ty)
        \/ ServiceOnly /\ \E ty \in ObserverTypes : detach_observer(t, ty)

SpecApi == InitApp /\ [][NextApi]_vars

-----------------------------------------------------------------------------
(* Threads constructing the Singleton, interleaved in any way *)

SingletonOnly == UNCHANGED <<service_vars, watch_vars, factory_vars>>

NextSingleton ==
    \E th \in Threads :
        \/ SingletonOnly /\ call(th)
        \/ SingletonOnly /\ new_check(th)
        \/ SingletonOnly /\ new_acquire(th)
        \/ SingletonOnly /\ new_recheck(th)
        \/ SingletonOnly /\ new_create(th)
        \/ SingletonOnly /\ new_release(th)
        \/ SingletonOnly /\ new_return(th)
        \/ SingletonOnly /\ init_check(th)
        \/ SingletonOnly /\ init_acquire(th)
        \/ SingletonOnly /\ init_recheck(th)
        \/ SingletonOnly /\ init_set_val(th)
        \/ SingletonOnly /\ init_set_flag(th)
        \/ SingletonOnly /\ init_release(th)

SpecSingleton == Init /\ [][NextSingleton]_vars

-----------------------------------------------------------------------------
(* Calls of the factory and of the endpoints built on it *)

FactoryOnly == UNCHANGED <<service_vars, watch_vars, singleton_vars>>

NextFactory ==
    \/ FactoryOnly /\ \E ty \in ProcessorType \cup OtherTypes : create_processor(ty)
    \/ FactoryOnly /\ get_available_processors
    \/ FactoryOnly /\ \E ty \in ProcessorType, d \in Texts : process_data(ty, d)
    \/ FactoryOnly /\ \E ty \in ProcessorType : get_processor_metadata(ty)

SpecFactory == Init /\ [][NextFactory]_vars

-----------------------------------------------------------------------------
(* Properties *)

\* the calls that reached notify: a mutation was applied and its event built
Published(f) == f.event.event_type # "none"

\* the call is over: it returned or raised
Over(f) == f.pc = "done"

\* how many times the event of the call was handed to observer o
Invocations(f, o) ==
    Cardinality({k \in 1..Len(f.attempts) : f.attempts[k][1] = o})

\* C1: when a subscriber raises during notify, every subscriber after it in
\* the list is still handed the event, and the create/update/delete call
\* returns its normal result
C1_IsolateAndContinue ==
    \A t \in Tasks :
        LET f == frame[t] IN
        (Over(f) /\ Published(f)) =>
            \A k \in 1..Len(f.attempts) :
                f.attempts[k][2] = "raise" =>
                    /\ f.result.status = "ok"
                    /\ Len(f.attempts) = Len(f.pre.observers)
                    /\ \A j \in (k + 1)..Len(f.pre.observers) :
                          f.attempts[j][1] = f.pre.observers[j]

\* C2: detach of a handle that is not in the subscriber list raises nothing
\* and leaves the list as it was
C2_DetachAbsentIsNoOp ==
    \A t \in Tasks :
        LET f == frame[t] IN
        (/\ Over(f)
         /\ f.op \in {"detach", "detach_observer"}
         /\ f.arg.observer # None
         /\ ~Contains(f.pre.observers, f.arg.observer)) =>
            /\ f.result.status = "ok"
            /\ observers = f.pre.observers

\* every id given so far is below the counter and above the ids given before it
IdsIncreasing ==
    /\ \A k \in 1..Len(assigned) : assigned[k] < next_id
    /\ \A j, k \in 1..Len(assigned) : j < k => assigned[j] < assigned[k]

\* C3: the ids given by create are strictly increasing and never given twice,
\* also after deletions: the counter is above every id given and no step
\* lowers it
C3_IdsIncreasingNeverReused ==
    /\ []IdsIncreasing
    /\ [][next_id' >= next_id]_vars

\* a create that follows the deletion of the only user
C3_Witness ==
    \E t \in Tasks :
        /\ frame[t].op = "create_user"
        /\ frame[t].pre.users = <<>>
        /\ assigned[1] \in deleted
        /\ Len(assigned) = 2
        /\ assigned[2] \in DOMAIN users

C5_BothDeliveredInOrder ==
    \A t \in Tasks :
        LET f == frame[t] IN
        (/\ f.op = "update_user"
         /\ Over(f)
         /\ Published(f)
         /\ Len(f.pre.observers) = 2
         /\ f.pre.observers[1] # f.pre.observers[2]) =>
            /\ Len(f.attempts) = 2
            /\ f.attempts[1][1] = f.pre.observers[1]
            /\ f.attempts[2][1] = f.pre.observers[2]

\* C6: a create that follows attach(h), h not attached before, hands its event
\* to h exactly once; a create that follows detach(h), h attached once before,
\* hands it to h zero times
C6_AttachOneDetachZero ==
    \A t \in Tasks :
        LET f == frame[t] IN
        (f.op = "create_user" /\ Over(f)) =>
            /\ (f.before.op = "attach" /\ f.before.n = 0) =>
                    Invocations(f, f.before.observer) = 1
            /\ (f.before.op = "detach" /\ f.before.n = 1) =>
                    Invocations(f, f.before.observer) = 0

\* the fields a request sets: a name or email of None is an unset field
FieldsSet(request) ==
    {g \in DOMAIN request : g \notin {"name", "email"} \/ request[g] # None}

\* C7: an update of a present id overwrites exactly the fields the request
\* sets and leaves the other fields of that user, and every other user, as
\* they were
C7_UpdateIsMerge ==
    \A t \in Tasks :
        LET f == frame[t] IN
        (/\ f.op = "update_user"
         /\ f.arg.user_id \in DOMAIN f.pre.users) =>
            LET id == f.arg.user_id
                old == f.pre.users[id]
                set == FieldsSet(f.arg.request)
            IN  /\ DOMAIN users = DOMAIN f.pre.users
                /\ DOMAIN users[id] = (DOMAIN old) \cup set
                /\ \A g \in set : users[id][g] = f.arg.request[g]
                /\ \A g \in (DOMAIN old) \ set : users[id][g] = old[g]
                /\ \A j \in (DOMAIN users) \ {id} : users[j] = f.pre.users[j]

C7_Witness ==
    \E t \in Tasks :
        LET f == frame[t] IN
        /\ f.op = "update_user"
        /\ Over(f)
        /\ f.result.status = "ok"
        /\ f.arg.request = [name |-> "X", email |-> None]
        /\ f.arg.user_id \in DOMAIN f.pre.users
        /\ f.pre.users[f.arg.user_id].name = "Ann"
        /\ f.result.value.name = "X"
        /\ f.result.value.email = "ann@x.io"
        /\ Cardinality(DOMAIN users) = 2

\* C8: after an update, whatever keys its dictionary carries, the id of the
\* stored user is the key it is stored under and its created_at is unchanged
C8_IdAndCreatedAtImmutable ==
    \A t \in Tasks :
        LET f == frame[t] IN
        (/\ f.op = "update_user"
         /\ f.arg.user_id \in DOMAIN f.pre.users) =>
            /\ users[f.arg.user_id].id = f.arg.user_id
            /\ users[f.arg.user_id].created_at =
                    f.pre.users[f.arg.user_id].created_at

C10_DeletedStaysAbsent ==
    /\ \A id \in deleted : id \notin DOMAIN users
    /\ \A t \in Tasks :
          LET f == frame[t] IN
          (f.op = "get_user" /\ Over(f) /\ f.arg.user_id \in deleted) =>
              f.result = Raise("HTTPException404")

C10_Witness ==
    \E t \in Tasks :
        LET f == frame[t] IN
        /\ f.op = "get_user"
        /\ Over(f)
        /\ f.arg.user_id \in deleted
        /\ DOMAIN users # {}
        /\ next_id > f.arg.user_id + 1

\* the create, update and delete calls that returned normally
Succeeded(f) ==
    /\ f.op \in {"create_user", "update_user", "delete_user"}
    /\ Over(f)
    /\ f.result.status = "ok"

\* the kind of event that belongs to the operation
KindOf(op) ==
    CASE op = "create_user" -> "USER_CREATED"
      [] op = "update_user" -> "USER_UPDATED"
      [] op = "delete_user" -> "USER_DELETED"

\* the id of the user the call created, updated or deleted
Affected(f) == IF f.op = "create_user" THEN f.result.value.id ELSE f.arg.user_id

\* the one event of a successful call: of the kind of the operation, with the
\* id of the affected user, handed once to every entry of the subscriber list;
\* the first create of a fresh service gives id 1 and publishes it
OneMatchingEvent(f) ==
    /\ Published(f)
    /\ f.event.event_type = KindOf(f.op)
    /\ f.event.user_id = Affected(f)
    /\ \A o \in {f.pre.observers[k] : k \in 1..Len(f.pre.observers)} :
          Invocations(f, o) = Count(f.pre.observers, o)
    /\ (f.op = "create_user" /\ f.pre.users = <<>> /\ f.pre.next_id = 1) =>
          (f.result.value.id = 1 /\ f.event.user_id = 1)
    /\ f.op = "update_user" =>
          /\ f.event.old_data = f.pre.users[f.arg.user_id]
          /\ f.event.new_data = f.result.value

\* C11 as stated: every successful create, update or delete publishes exactly
\* one event, of the kind of the operation and with the id of the affected
\* user; the first create of a fresh service returns id 1 and publishes id 1;
\* the before and after snapshots of an updated event differ in every field
\* the update set
C11_OneEventSnapshotsDiffer ==
    \A t \in Tasks :
        LET f == frame[t] IN
        Succeeded(f) =>
            /\ OneMatchingEvent(f)
            /\ f.op = "update_user" =>
                  \A g \in FieldsSet(f.arg.request) :
                      f.event.old_data[g] # f.event.new_data[g]

\* C11 amended: every successful create, update or delete publishes exactly
\* one event, of the kind of the operation and with the id of the affected
\* user; the first create of a fresh service returns id 1 and publishes id 1;
\* the before and after snapshots of an updated event differ in exactly the
\* fields to which the update gave a value other than the one they had, and
\* are equal when it gave none
C11_OneEventSnapshotsDifferWhereChanged ==
    \A t \in Tasks :
        LET f == frame[t] IN
        Succeeded(f) =>
            /\ OneMatchingEvent(f)
            /\ f.op = "update_user" =>
                  LET old == f.event.old_data
                      new == f.event.new_data
                      set == FieldsSet(f.arg.request)
                  IN  /\ DOMAIN old = DOMAIN new
                      /\ \A g \in DOMAIN new :
                            (old[g] # new[g]) <=>
                                (g \in set /\ f.arg.request[g] # old[g])

\* a successful update that sets the name to the name the user already has,
\* handed to two subscribers
C11_Witness ==
    \E t \in Tasks :
        LET f == frame[t] IN
        /\ Succeeded(f)
        /\ f.op = "update_user"
        /\ f.arg.request.name = "X"
        /\ f.pre.users[f.arg.user_id].name = "X"
        /\ f.event.old_data = f.event.new_data
        /\ Len(f.attempts) = 2
        /\ f.pre.observers[1] # f.pre.observers[2]

\* C12: the payload a subscriber was handed for a mutation reads the same
\* ever after, whatever operation the service performs later on that user
C12_PayloadNeverChanges == kept.view = kept.event

\* C13: in every notify call, whatever attach and detach calls other tasks
\* make while it is suspended in a subscriber's update, every handle that is
\* in the list for the whole call is handed the event exactly once (stated
\* for the calls in which no subscriber raises)
C13_StableHandlesExactlyOnce ==
    \A t \in Tasks :
        LET f == frame[t] IN
        (/\ Over(f)
         /\ Published(f)
         /\ \A k \in 1..Len(f.attempts) : f.attempts[k][2] = "ok") =>
            \A h \in Handles :
                (Count(f.pre.observers, h) = 1 /\ h \notin churn[t]) =>
                    Invocations(f, h) = 1

\* C14: while a subscriber has yet to be handed the event of one mutation, no
\* other mutation is applied and no other event is on its way: at most one
\* create, update or delete is between its mutation and its return
C14_OneFanOutAtATime ==
    \A t \in Tasks :
        (frame[t].pc = "notify" /\ frame[t].i < Len(observers)) =>
            \A u \in Tasks \ {t} : frame[u].pc # "notify"

\* C15: from the four observers attached once each, after any sequence of
\* calls of the attach and detach endpoints the subscriber list holds each
\* observer at most once, and an attach call for an observer that is in the
\* list leaves the list as it was
C15_EachObserverAtMostOnce ==
    /\ \A h \in Handles : Count(observers, h) <= 1
    /\ \A t \in Tasks :
          LET f == frame[t] IN
          (/\ f.op = "attach_observer"
           /\ f.arg.observer # None
           /\ Contains(f.pre.observers, f.arg.observer)) =>
              /\ observers = f.pre.observers
              /\ f.result = Ok([message |-> "observer already attached"])

\* an attach call for an attached observer, after detach and attach calls
\* have brought all four back in another order
C15_Witness ==
    \E t \in Tasks :
        LET f == frame[t] IN
        /\ f.op = "attach_observer"
        /\ f.arg.observer # None
        /\ Contains(f.pre.observers, f.arg.observer)
        /\ Len(observers) = 4
        /\ observers # AttachedAtStart

\* the list after Subject.attach is the list before with the handle at its
\* end, whether or not it was in it; after Subject.detach of a present handle
\* it is the list before without the first occurrence of the handle
AppendsAndRemovesFirst ==
    \A t \in Tasks :
        LET f == frame[t]
            o == f.arg.observer
            s == f.pre.observers
        IN  /\ f.op = "attach" => observers = s \o <<o>>
            /\ (f.op = "detach" /\ Contains(s, o)) =>
                  /\ Count(observers, o) = Count(s, o) - 1
                  /\ \E k \in 1..Len(s) :
                        /\ s[k] = o
                        /\ \A j \in 1..(k - 1) : s[j] # o
                        /\ observers = SubSeq(s, 1, k - 1) \o SubSeq(s, k + 1, Len(s))

\* C16: Subject.attach appends at the end without a uniqueness check and
\* Subject.detach removes only the first occurrence, keeping the order of
\* the rest; a handle that is in the list k times is handed each event k
\* times
C16_AttachedKTimesReceivesKTimes ==
    /\ AppendsAndRemovesFirst
    /\ \A t \in Tasks :
          LET f == frame[t] IN
          (Over(f) /\ Published(f)) =>
              \A h \in Handles : Invocations(f, h) = Count(f.pre.observers, h)

\* the constructor call of the thread has returned
Returned(th) == thread[th].pc = "returned"

\* C17: however the threads that construct Singleton(val) interleave, at most
\* one object is ever created and every constructor call returns that
\* object
C17_OneInstanceReturnedToAll ==
    /\ Cardinality(DOMAIN val) <= 1
    /\ \A th \in Threads :
          Returned(th) =>
              /\ thread[th].result # NoInstance
              /\ thread[th].result = instance
              /\ thread[th].result \in DOMAIN val
    /\ \A a, b \in Threads :
          (Returned(a) /\ Returned(b)) => thread[a].result = thread[b].result

\* one call has returned the instance while another thread, which found no
\* instance at the check outside the lock, is at the check under the lock
C17_Witness ==
    \E a, b \in Threads :
        /\ Returned(a)
        /\ thread[b].pc = "new_11"
        /\ instance # NoInstance

\* C18: however the threads interleave, val is written once, by the first
\* thread to initialize, the arguments of the other calls are ignored, and
\* every constructor call that has returned finds val set to that first value
C18_ValWrittenOnceSeenByAll ==
    /\ Len(writes) <= 1
    /\ is_initialized => Len(writes) = 1
    /\ \A th \in Threads :
          Returned(th) =>
              /\ Len(writes) = 1
              /\ val[thread[th].result] # Unset
              /\ val[thread[th].result] = writes[1][3]
              /\ val[thread[th].result] = ValArg(writes[1][1])

\* a call whose argument was ignored has returned, while a thread that found
\* the flag unset outside the lock is at the check under the lock
C18_Witness ==
    \E b, c \in Threads :
        /\ thread[b].pc = "init_18"
        /\ is_initialized
        /\ Returned(c)
        /\ val[thread[c].result] # ValArg(c)

\* the elements of a sequence
Elements(s) == {s[k] : k \in 1..Len(s)}

\* C19: create_processor returns, for every member of ProcessorType, a new
\* object of the class registered for that type, whose process result
\* carries the tag of the type whatever the text, and raises ValueError only
\* for a type with no registered class; get_available_processors lists
\* exactly the registered types
C19_FactoryReturnsRegisteredClass ==
    /\ ProcessorType \subseteq DOMAIN processors
    /\ factory.op = "create_processor" =>
          LET ty == factory.arg.processor_type
              r == factory.result
          IN  /\ ty \in ProcessorType => r.status = "ok"
              /\ r.status = "raise" <=> ty \notin DOMAIN processors
              /\ r.status = "raise" => r.value = "ValueError"
              /\ r.status = "ok" =>
                    /\ r.value.class = processors[ty]
                    /\ r.value.obj \notin 1..factory.pre_made
                    /\ \A d \in Texts : process(r.value.class, d).type = ty
    /\ factory.op = "process_data" =>
          /\ factory.result.status = "ok"
          /\ factory.result.value.processed_data.type = factory.arg.processor_type
    /\ factory.op = "get_available_processors" =>
          LET listed == factory.result.value.available_processors
          IN  /\ Elements(listed) = DOMAIN processors
              /\ Len(listed) = Cardinality(DOMAIN processors)
              /\ factory.result.value.count = Len(listed)

\* a processor created for xml after other objects were made, whose class
\* declines the JSON text with the xml tag
C19_Witness ==
    /\ factory.op = "create_processor"
    /\ factory.arg.processor_type = "xml"
    /\ factory.result.status = "ok"
    /\ factory.pre_made >= 2
    /\ \E d \in Texts :
          /\ d.text = "json_example"
          /\ process(factory.result.value.class, d) =
                [error |-> "Invalid XML format", type |-> "xml"]
====
